---- MODULE Spec2Model ----
(***************************************************************************)
(* A model of the Slack MCP adapter: the rate-limited SlackClient          *)
(* (client.ts) and the tool handlers that registerTools installs           *)
(* (tools.ts).  Time is a millisecond clock; a handler runs to its next    *)
(* await in one step, as the JavaScript event loop runs it.                *)
(***************************************************************************)
EXTENDS Integers, Sequences, FiniteSets, TLC

\* ------------------------------------------------------------------------
\* Program constants
\* ------------------------------------------------------------------------

RATE_LIMIT_DELAY == 1000

\* the fallback of `retryAfter ? parseInt(retryAfter) * 1000 : 60000`
DEFAULT_RETRY_DELAY == 60000

\* setTimeout keeps a delay d only when 1 <= d <= TIMEOUT_MAX (2^31 - 1)
TIMEOUT_MAX == 2147483647

\* ------------------------------------------------------------------------
\* Bounds of the model
\* ------------------------------------------------------------------------

\* the clock's value when the process starts (Date.now() is far from 0)
StartTime == 10000
\* the step by which the clock advances when it does not jump to a timer
TickStep == 500
\* how far past StartTime the clock advances by steps (it advances to a
\* pending timer's due time without limit)
Horizon == 1000
\* network requests in one run
MaxRequests == 3
\* changes of process.env.SLACK_BOT_TOKEN in one run
MaxEnvSets == 1

Procs == {1, 2}

\* ------------------------------------------------------------------------
\* JavaScript values
\* ------------------------------------------------------------------------

Undefined == [t |-> "undefined"]
Str(s) == [t |-> "string", v |-> s]
Num(n) == [t |-> "number", v |-> n]
Arr(a) == [t |-> "array", v |-> a]
Bool(b) == [t |-> "boolean", v |-> b]
\* a JSON object or array the program passes through without looking inside
Opaque(name) == [t |-> "object", v |-> name]
NaN == [t |-> "NaN"]

\* ToBoolean: what `if (x)`, `!x` and `x || y` test
Truthy(x) ==
  CASE x.t = "undefined" -> FALSE
    [] x.t = "NaN" -> FALSE
    [] x.t = "string" -> x.v # ""
    [] x.t = "number" -> x.v # 0
    [] x.t = "boolean" -> x.v
    [] OTHER -> TRUE

\* obj.key, undefined when the object has no such key
Get(obj, key) == IF key \in DOMAIN obj THEN obj[key] ELSE Undefined

\* JSON.stringify of an object: a key whose value is undefined is left out
JSONStringify(obj) ==
  [k \in {x \in DOMAIN obj : obj[x].t # "undefined"} |-> obj[k]]

\* `if (v) data[key] = v`
SetIf(data, key, v) == IF Truthy(v) THEN (key :> v) @@ data ELSE data

\* ------------------------------------------------------------------------
\* Platform functions the client calls
\* ------------------------------------------------------------------------

\* A header value is a string, written as the sequence of its characters.
DigitValue ==
  [c \in {"0", "1", "2", "3", "4", "5", "6", "7", "8", "9"} |->
     CASE c = "0" -> 0 [] c = "1" -> 1 [] c = "2" -> 2 [] c = "3" -> 3
       [] c = "4" -> 4 [] c = "5" -> 5 [] c = "6" -> 6 [] c = "7" -> 7
       [] c = "8" -> 8 [] c = "9" -> 9]

RECURSIVE SkipSpaces(_)
SkipSpaces(s) ==
  IF s # <<>> /\ Head(s) = " " THEN SkipSpaces(Tail(s)) ELSE s

\* the value of the longest prefix of decimal digits of s, after acc
RECURSIVE DigitsValue(_, _)
DigitsValue(s, acc) ==
  IF s # <<>> /\ Head(s) \in DOMAIN DigitValue
    THEN DigitsValue(Tail(s), 10 * acc + DigitValue[Head(s)])
    ELSE acc

\* parseInt(s): leading blanks skipped, an optional sign, then the longest
\* prefix of digits; NaN when no digit starts it
ParseInt(s) ==
  LET t == SkipSpaces(s)
      neg == t # <<>> /\ Head(t) = "-"
      u == IF t # <<>> /\ Head(t) \in {"-", "+"} THEN Tail(t) ELSE t
  IN IF u # <<>> /\ Head(u) \in DOMAIN DigitValue
       THEN Num(IF neg THEN 0 - DigitsValue(u, 0) ELSE DigitsValue(u, 0))
       ELSE NaN

\* a number of magnitude above 2^31 - 1 (its value is not needed: setTimeout
\* treats all of them alike)
OutOfRange == [t |-> "out-of-range number"]

\* x * k in JavaScript numbers, k > 0
Times(x, k) ==
  IF x.t # "number" THEN NaN
  ELSE IF x.v > TIMEOUT_MAX \div k \/ 0 - x.v > TIMEOUT_MAX \div k
    THEN OutOfRange
    ELSE Num(x.v * k)

\* setTimeout(resolve, delay): the milliseconds after which the timer is due.
\* A delay that is not a number in 1..TIMEOUT_MAX is replaced by 1.
SetTimeoutDelay(delay) ==
  IF delay.t = "number" /\ delay.v >= 1 /\ delay.v <= TIMEOUT_MAX
    THEN delay.v
    ELSE 1

\* ------------------------------------------------------------------------
\* SlackClient (client.ts)
\* ------------------------------------------------------------------------

MissingTokenMessage == <<"SLACK_BOT_TOKEN environment variable is required">>

\* the constructor without its check: it stores token || envToken, whatever
\* that is
SlackClientNewUnchecked(token, env) ==
  [threw |-> FALSE,
   client |-> [t |-> "client",
               token |-> IF Truthy(token) THEN token ELSE env,
               lastRequestTime |-> 0]]

\* constructor(token?): throws without a token, else stores token || envToken
SlackClientNew(token, env) ==
  IF ~Truthy(token) /\ ~Truthy(env)
    THEN [threw |-> TRUE, message |-> MissingTokenMessage]
    ELSE [threw |-> FALSE,
          client |-> [t |-> "client",
                      token |-> IF Truthy(token) THEN token ELSE env,
                      lastRequestTime |-> 0]]

\* rateLimit() sleeping for the time elapsed instead of the time remaining
RateLimitWaitElapsed(lastRequestTime, t) ==
  LET timeSinceLastRequest == t - lastRequestTime
  IN IF timeSinceLastRequest < RATE_LIMIT_DELAY
       THEN SetTimeoutDelay(Num(timeSinceLastRequest))
       ELSE 0

\* rateLimit() sleeping for the whole interval whenever it has to wait:
\* setTimeout(resolve, RATE_LIMIT_DELAY)
RateLimitWaitWhole(lastRequestTime, t) ==
  LET timeSinceLastRequest == t - lastRequestTime
  IN IF timeSinceLastRequest < RATE_LIMIT_DELAY
       THEN SetTimeoutDelay(Num(RATE_LIMIT_DELAY))
       ELSE 0

\* rateLimit(), up to its await: the milliseconds to sleep, 0 for none
RateLimitWait(lastRequestTime, t) ==
  LET timeSinceLastRequest == t - lastRequestTime
  IN IF timeSinceLastRequest < RATE_LIMIT_DELAY
       THEN SetTimeoutDelay(Num(RATE_LIMIT_DELAY - timeSinceLastRequest))
       ELSE 0

\* A header read by headers.get(name): null, or the string's characters.
Null == [t |-> "null"]
Chars(cs) == [t |-> "chars", v |-> cs]

\* request(), the 429 branch: the delay handed to setTimeout.
\* `retryAfter ? ... : ...` takes null and the empty string as false.
RetryDelay(retryAfter) ==
  IF retryAfter.t = "chars" /\ Len(retryAfter.v) > 0
    THEN Times(ParseInt(retryAfter.v), 1000)
    ELSE Num(DEFAULT_RETRY_DELAY)

\* response.ok of fetch's Response
ResponseOk(status) == status >= 200 /\ status <= 299

HttpErrorMessage(status, statusText) ==
  <<"Slack API error: ", ToString(status), " ", statusText>>

ApiErrorMessage(result) ==
  <<"Slack API error: ",
    IF Truthy(Get(result, "error")) THEN Get(result, "error").v
                                    ELSE "Unknown error">>

\* request() testing `!response.ok` before the 429 branch
RequestOutcomeOkFirst(resp) ==
  IF ~ResponseOk(resp.status)
    THEN [kind |-> "throw",
          message |-> HttpErrorMessage(resp.status, resp.statusText)]
  ELSE IF ~Truthy(Get(resp.body, "ok"))
    THEN [kind |-> "throw", message |-> ApiErrorMessage(resp.body)]
  ELSE [kind |-> "return", result |-> resp.body]

\* request() retrying every 5xx as it retries a 429
RequestOutcomeRetry5xx(resp) ==
  IF resp.status = 429 \/ resp.status >= 500
    THEN [kind |-> "retry",
          delay |-> SetTimeoutDelay(RetryDelay(resp.retryAfter))]
  ELSE IF ~ResponseOk(resp.status)
    THEN [kind |-> "throw",
          message |-> HttpErrorMessage(resp.status, resp.statusText)]
  ELSE IF ~Truthy(Get(resp.body, "ok"))
    THEN [kind |-> "throw", message |-> ApiErrorMessage(resp.body)]
  ELSE [kind |-> "return", result |-> resp.body]

\* request() failing only on `result.ok === false`
RequestOutcomeStrictFalse(resp) ==
  IF resp.status = 429
    THEN [kind |-> "retry",
          delay |-> SetTimeoutDelay(RetryDelay(resp.retryAfter))]
  ELSE IF ~ResponseOk(resp.status)
    THEN [kind |-> "throw",
          message |-> HttpErrorMessage(resp.status, resp.statusText)]
  ELSE IF Get(resp.body, "ok").t = "boolean" /\ ~Get(resp.body, "ok").v
    THEN [kind |-> "throw", message |-> ApiErrorMessage(resp.body)]
  ELSE [kind |-> "return", result |-> resp.body]

\* request(), after the fetch: what the response makes of the call
\*   retry  - sleep `delay` ms, then request(endpoint, data) again
\*   throw  - the call rejects with Error(message)
\*   return - the call resolves to the parsed body
RequestOutcome(resp) ==
  IF resp.status = 429
    THEN [kind |-> "retry",
          delay |-> SetTimeoutDelay(RetryDelay(resp.retryAfter))]
  ELSE IF ~ResponseOk(resp.status)
    THEN [kind |-> "throw",
          message |-> HttpErrorMessage(resp.status, resp.statusText)]
  ELSE IF ~Truthy(Get(resp.body, "ok"))
    THEN [kind |-> "throw", message |-> ApiErrorMessage(resp.body)]
  ELSE [kind |-> "return", result |-> resp.body]

\* A plain object (a method's return value, response_metadata)
Rec(fields) == [t |-> "record", v |-> fields]

\* the cursor defaulted to the empty string:
\* response.response_metadata?.next_cursor || ""
NextCursorOrEmpty(r) ==
  LET m == Get(r, "response_metadata")
      c == IF m.t = "record" THEN Get(m.v, "next_cursor") ELSE Undefined
  IN IF Truthy(c) THEN c ELSE Str("")

\* response.response_metadata?.next_cursor
NextCursor(r) ==
  LET m == Get(r, "response_metadata")
  IN IF m.t = "record" THEN Get(m.v, "next_cursor") ELSE Undefined

\* The capability methods, up to their call of request(): the endpoint and
\* the payload built from the arguments a (argument name -> value, an
\* argument that was not passed is undefined).
postMessage(a) ==
  [endpoint |-> "chat.postMessage",
   data |-> SetIf([channel |-> Get(a, "channel"), text |-> Get(a, "text")],
                  "blocks", Get(a, "blocks"))]

updateMessage(a) ==
  [endpoint |-> "chat.update",
   data |-> SetIf([channel |-> Get(a, "channel"), ts |-> Get(a, "ts"),
                   text |-> Get(a, "text")],
                  "blocks", Get(a, "blocks"))]

deleteMessage(a) ==
  [endpoint |-> "chat.delete",
   data |-> [channel |-> Get(a, "channel"), ts |-> Get(a, "ts")]]

listChannels(a) ==
  [endpoint |-> "conversations.list",
   data |-> SetIf(SetIf(SetIf(<<>>, "types", Get(a, "types")),
                        "limit", Get(a, "limit")),
                  "cursor", Get(a, "cursor"))]

getChannelInfo(a) ==
  [endpoint |-> "conversations.info",
   data |-> [channel |-> Get(a, "channel")]]

getChannelHistory(a) ==
  [endpoint |-> "conversations.history",
   data |-> SetIf(SetIf(SetIf(SetIf([channel |-> Get(a, "channel")],
                                    "limit", Get(a, "limit")),
                              "oldest", Get(a, "oldest")),
                        "latest", Get(a, "latest")),
                  "cursor", Get(a, "cursor"))]

getReplies(a) ==
  [endpoint |-> "conversations.replies",
   data |-> SetIf(SetIf([channel |-> Get(a, "channel"), ts |-> Get(a, "ts")],
                        "limit", Get(a, "limit")),
                  "cursor", Get(a, "cursor"))]

joinChannel(a) ==
  [endpoint |-> "conversations.join",
   data |-> [channel |-> Get(a, "channel")]]

listUsers(a) ==
  [endpoint |-> "users.list",
   data |-> SetIf(SetIf(<<>>, "limit", Get(a, "limit")),
                  "cursor", Get(a, "cursor"))]

getUserInfo(a) ==
  [endpoint |-> "users.info", data |-> [user |-> Get(a, "user")]]

addReaction(a) ==
  [endpoint |-> "reactions.add",
   data |-> [channel |-> Get(a, "channel"),
             timestamp |-> Get(a, "timestamp"), name |-> Get(a, "name")]]

\* removeReaction posting to the endpoint of addReaction
removeReactionToAdd(a) ==
  [endpoint |-> "reactions.add",
   data |-> [channel |-> Get(a, "channel"),
             timestamp |-> Get(a, "timestamp"), name |-> Get(a, "name")]]

removeReaction(a) ==
  [endpoint |-> "reactions.remove",
   data |-> [channel |-> Get(a, "channel"),
             timestamp |-> Get(a, "timestamp"), name |-> Get(a, "name")]]

searchMessages(a) ==
  [endpoint |-> "search.messages",
   data |-> SetIf(SetIf(SetIf([query |-> Get(a, "query")],
                              "sort", Get(a, "sort")),
                        "sort_dir", Get(a, "sortDir")),
                  "count", Get(a, "count"))]

uploadFile(a) ==
  [endpoint |-> "files.upload",
   data |-> SetIf([channels |-> Get(a, "channels"),
                   content |-> Get(a, "content"),
                   filename |-> Get(a, "filename")],
                  "title", Get(a, "title"))]

Methods ==
  {"postMessage", "updateMessage", "deleteMessage", "listChannels",
   "getChannelInfo", "getChannelHistory", "getReplies", "joinChannel",
   "listUsers", "getUserInfo", "addReaction", "removeReaction",
   "searchMessages", "uploadFile"}

\* method m called with arguments a: its request
MethodRequest(m, a) ==
  CASE m = "postMessage" -> postMessage(a)
    [] m = "updateMessage" -> updateMessage(a)
    [] m = "deleteMessage" -> deleteMessage(a)
    [] m = "listChannels" -> listChannels(a)
    [] m = "getChannelInfo" -> getChannelInfo(a)
    [] m = "getChannelHistory" -> getChannelHistory(a)
    [] m = "getReplies" -> getReplies(a)
    [] m = "joinChannel" -> joinChannel(a)
    [] m = "listUsers" -> listUsers(a)
    [] m = "getUserInfo" -> getUserInfo(a)
    [] m = "addReaction" -> addReaction(a)
    [] m = "removeReaction" -> removeReaction(a)
    [] m = "searchMessages" -> searchMessages(a)
    [] m = "uploadFile" -> uploadFile(a)

\* method m, after request() has returned the body r: the method's value
MethodReturn(m, r) ==
  CASE m = "postMessage" ->
         Rec([channel |-> Get(r, "channel"), ts |-> Get(r, "ts"),
              message |-> Get(r, "message")])
    [] m = "updateMessage" ->
         Rec([channel |-> Get(r, "channel"), ts |-> Get(r, "ts"),
              text |-> Get(r, "text")])
    [] m = "deleteMessage" ->
         Rec([channel |-> Get(r, "channel"), ts |-> Get(r, "ts")])
    [] m = "listChannels" ->
         Rec([channels |-> Get(r, "channels"), next_cursor |-> NextCursor(r)])
    [] m = "getChannelInfo" -> Get(r, "channel")
    [] m = "getChannelHistory" ->
         Rec([messages |-> Get(r, "messages"), has_more |-> Get(r, "has_more"),
              next_cursor |-> NextCursor(r)])
    [] m = "getReplies" ->
         Rec([messages |-> Get(r, "messages"), has_more |-> Get(r, "has_more"),
              next_cursor |-> NextCursor(r)])
    [] m = "joinChannel" -> Get(r, "channel")
    [] m = "listUsers" ->
         Rec([members |-> Get(r, "members"), next_cursor |-> NextCursor(r)])
    [] m = "getUserInfo" -> Get(r, "user")
    [] m = "addReaction" -> Undefined
    [] m = "removeReaction" -> Undefined
    [] m = "searchMessages" -> Get(r, "messages")
    [] m = "uploadFile" -> Get(r, "file")

\* ------------------------------------------------------------------------
\* The tool handlers (tools.ts)
\* ------------------------------------------------------------------------

\* the tools registerTools installs, each with the client method it calls
ToolMethod ==
  [slack_post_message |-> "postMessage",
   slack_update_message |-> "updateMessage",
   slack_delete_message |-> "deleteMessage",
   slack_list_channels |-> "listChannels",
   slack_get_channel_info |-> "getChannelInfo",
   slack_get_channel_history |-> "getChannelHistory",
   slack_get_replies |-> "getReplies",
   slack_join_channel |-> "joinChannel",
   slack_list_users |-> "listUsers",
   slack_get_user_info |-> "getUserInfo",
   slack_add_reaction |-> "addReaction",
   slack_remove_reaction |-> "removeReaction",
   slack_search_messages |-> "searchMessages",
   slack_upload_file |-> "uploadFile"]

Tools == DOMAIN ToolMethod

\* JSON.stringify(value, null, 2): the JSON text, written as the value it
\* denotes; undefined for undefined
Serialize(x) ==
  IF x.t = "undefined" THEN Undefined
  ELSE IF x.t = "record" THEN [t |-> "json", v |-> Rec(JSONStringify(x.v))]
  ELSE [t |-> "json", v |-> x]

\* a handler's try branch: the envelope it returns for the method's value
SuccessResult(tool, value) ==
  [content |->
     IF tool \in {"slack_add_reaction", "slack_remove_reaction"}
       THEN Serialize(Rec([success |-> Bool(TRUE)]))
       ELSE Serialize(value)]

\* errorResult(error), error an Error with this message (every throw of the
\* client is `new Error(...)`)
ErrorResult(message) ==
  [content |-> [t |-> "text", v |-> <<"Error: ">> \o message],
   isError |-> TRUE]

\* a handler without its try/catch: what is thrown reaches the host
HandlerOutcomeNoCatch(tool, s) ==
  IF s.threw
    THEN [kind |-> "rejected", message |-> s.message]
    ELSE [kind |-> "resolved", envelope |-> SuccessResult(tool, s.value)]

\* a handler, once getClient() and the method have settled (s.threw: one
\* of them threw s.message; else the method returned s.value): both
\* branches of try/catch resolve to an envelope
HandlerOutcome(tool, s) ==
  IF s.threw
    THEN [kind |-> "resolved", envelope |-> ErrorResult(s.message)]
    ELSE [kind |-> "resolved", envelope |-> SuccessResult(tool, s.value)]

NoClient == [t |-> "null"]

\* getClient() constructing a client on every call: `return new SlackClient()`
GetClientFresh(c, envToken) == SlackClientNew(Undefined, envToken)

\* getClient(): `if (!_client) _client = new SlackClient(); return _client`
GetClient(c, envToken) ==
  IF c.t = "null"
    THEN SlackClientNew(Undefined, envToken)
    ELSE [threw |-> FALSE, client |-> c]

\* registerTools constructing its client at once instead of on first use
RegisterToolsEager(envToken) ==
  IF SlackClientNew(Undefined, envToken).threw THEN "failed" ELSE "registered"

\* registerTools(server): declares _client = null and the 14 handlers; it
\* constructs no client, so it returns whatever the environment holds
RegisterToolsOutcome(envToken) == "registered"

\* ------------------------------------------------------------------------
\* State
\* ------------------------------------------------------------------------

VARIABLES
  now,         \* Date.now()
  envToken,    \* process.env.SLACK_BOT_TOKEN
  envSets,     \* changes of envToken so far
  startup,     \* "pending" until registerTools has run
  clients,     \* instance -> the SlackClient it holds, or null
  constructed, \* instance -> what its client was constructed from
  proc,        \* invocation slot -> where its invocation stands
  delivered,   \* the invocation the last step settled, as its caller got it
  dispatched,  \* instance -> the start times of its last two requests
  timers,      \* the setTimeout timers that have not fired yet
  requests \* network requests begun so far

vars ==
  <<now, envToken, envSets, startup, clients, constructed, proc, delivered,
    dispatched, timers, requests>>

\* "tools" is the _client of registerTools; "A" and "B" are clients that
\* library code constructs itself
Instances == {"tools", "A", "B"}

EnvValues == {Undefined, Str("xoxb-env")}

BASE_URL == "https://slack.com/api"

\* the fetch of request(): url, headers and body
WireRequest(token, endpoint, data) ==
  [url |-> <<BASE_URL, "/", endpoint>>,
   authorization |-> <<"Bearer ", token.v>>,
   body |-> JSONStringify(data)]

NoWire == [url |-> <<>>, authorization |-> <<>>, body |-> <<>>]

\* pc: idle | rateLimit (asleep in rateLimit) | fetch (awaiting the
\* response) | retryWait (asleep after a 429) | done
\* before any response: the `response` of request() is not yet set
NoResponse ==
  [status |-> 0, statusText |-> "", retryAfter |-> Null, body |-> <<>>]

\* name, args: the tool and its input, or the method and its arguments;
\* since, wakeAt: when the pending timer was set and when it is due;
\* attempts: the requests this invocation has sent; wire: the last of them;
\* throttles: the 429 responses it has got;
\* response: the response request() is handling
IdleProc ==
  [pc |-> "idle", via |-> "none", inst |-> "none", name |-> "none",
   args |-> <<>>, method |-> "none", endpoint |-> "none", data |-> <<>>,
   since |-> 0, wakeAt |-> 0, attempts |-> 0, throttles |-> 0,
   wire |-> NoWire,
   response |-> NoResponse,
   settled |-> [threw |-> FALSE, value |-> Undefined],
   outcome |-> [kind |-> "none"]]

\* the arguments of `new SlackClient(token)` and the environment's token
\* at that time; failed: a construction for the instance has thrown
NotConstructed ==
  [token |-> Undefined, env |-> Undefined, done |-> FALSE, failed |-> FALSE]
ConstructedFrom(token, env) ==
  [token |-> token, env |-> env, done |-> TRUE, failed |-> FALSE]

Sleeping(p) == proc[p].pc \in {"rateLimit", "retryWait"}

InitWith(env) ==
  /\ now = StartTime
  /\ envToken = env
  /\ envSets = 0
  /\ startup = "pending"
  /\ clients = [i \in Instances |-> NoClient]
  /\ constructed = [i \in Instances |-> NotConstructed]
  /\ proc = [p \in Procs |-> IdleProc]
  /\ delivered = IdleProc
  /\ dispatched = [i \in Instances |-> <<>>]
  /\ timers = {}
  /\ requests = 0

Init == \E env \in EnvValues : InitWith(env)

\* ------------------------------------------------------------------------
\* request(endpoint, data), from its entry to its first await
\* ------------------------------------------------------------------------

\* rateLimit() stamping with the `now` it read before the wait
\* (`this.lastRequestTime = now`)
StampAtCheck(pr, c) ==
  [proc |-> [pr EXCEPT !.pc = "fetch",
                       !.since = 0,
                       !.wakeAt = 0,
                       !.response = NoResponse,
                       !.attempts = @ + 1,
                       !.wire = WireRequest(c.token, pr.endpoint, pr.data)],
   client |-> [c EXCEPT !.lastRequestTime =
                           IF pr.pc = "rateLimit" THEN pr.since ELSE now],
   sent |-> TRUE,
   timer |-> 0]

\* `this.lastRequestTime = Date.now()` and the fetch that follows it in the
\* same turn of the event loop
StampAndFetch(pr, c) ==
  [proc |-> [pr EXCEPT !.pc = "fetch",
                       !.since = 0,
                       !.wakeAt = 0,
                       !.response = NoResponse,
                       !.attempts = @ + 1,
                       !.wire = WireRequest(c.token, pr.endpoint, pr.data)],
   client |-> [c EXCEPT !.lastRequestTime = now],
   sent |-> TRUE,
   timer |-> 0]

\* rateLimit() without the await before its Promise: the timer is set and
\* the request goes out at once
EnterRequestNoAwait(pr, c) ==
  LET wait == RateLimitWait(c.lastRequestTime, now)
  IN IF wait > 0
       THEN [StampAndFetch(pr, c) EXCEPT !.timer = now + wait]
       ELSE StampAndFetch(pr, c)

\* request() entered by invocation record pr on client c: rateLimit() either
\* sleeps (the timer is set) or stamps and the request goes out.
\* timer: when the timer the step sets is due, 0 when it sets none
EnterRequest(pr, c) ==
  LET wait == RateLimitWait(c.lastRequestTime, now)
  IN IF wait > 0
       THEN [proc |-> [pr EXCEPT !.pc = "rateLimit",
                                 !.since = now,
                                 !.wakeAt = now + wait,
                                 !.response = NoResponse],
             client |-> c,
             sent |-> FALSE,
             timer |-> now + wait]
       ELSE StampAndFetch(pr, c)

\* the last two of a sequence of times, with t added
LastTwo(ts, t) == IF ts = <<>> THEN <<t>> ELSE <<ts[Len(ts)], t>>

\* a timer of invocation slot p, due at time t
Timer(p, t) == [p |-> p, due |-> t]

\* the timer whose firing lets p take its step, if p is asleep
Fired(p) ==
  IF proc[p].pc \in {"rateLimit", "retryWait"}
    THEN {Timer(p, proc[p].wakeAt)}
    ELSE {}

\* the step's stamp written to a timestamp that all clients share (a
\* module-level or static lastRequestTime)
ApplySharedStamp(p, st) ==
  /\ proc' = [proc EXCEPT ![p] = st.proc]
  /\ clients' =
       [i \in Instances |->
          IF i = st.proc.inst
            THEN st.client
            ELSE IF clients[i].t = "client" /\ st.sent
                   THEN [clients[i] EXCEPT
                           !.lastRequestTime = st.client.lastRequestTime]
                   ELSE clients[i]]
  /\ dispatched' =
       IF st.sent
         THEN [dispatched EXCEPT ![st.proc.inst] = LastTwo(@, now)]
         ELSE dispatched
  /\ timers' =
       (timers \ Fired(p))
         \cup (IF st.timer > 0 THEN {Timer(p, st.timer)} ELSE {})
  /\ requests' = IF st.sent THEN requests + 1 ELSE requests

\* the next state after step st (of EnterRequest or StampAndFetch) of p
Apply(p, st) ==
  /\ proc' = [proc EXCEPT ![p] = st.proc]
  /\ clients' = [clients EXCEPT ![st.proc.inst] = st.client]
  /\ dispatched' =
       IF st.sent
         THEN [dispatched EXCEPT ![st.proc.inst] = LastTwo(@, now)]
         ELSE dispatched
  /\ timers' =
       (timers \ Fired(p))
         \cup (IF st.timer > 0 THEN {Timer(p, st.timer)} ELSE {})
  /\ requests' = IF st.sent THEN requests + 1 ELSE requests

\* ------------------------------------------------------------------------
\* Inputs
\* ------------------------------------------------------------------------

\* schemas.ts: the required and the optional keys of each tool's input
SchemaRequired ==
  [slack_post_message |-> {"channel", "text"},
   slack_update_message |-> {"channel", "ts", "text"},
   slack_delete_message |-> {"channel", "ts"},
   slack_list_channels |-> {},
   slack_get_channel_info |-> {"channel"},
   slack_get_channel_history |-> {"channel"},
   slack_get_replies |-> {"channel", "ts"},
   slack_join_channel |-> {"channel"},
   slack_list_users |-> {},
   slack_get_user_info |-> {"user"},
   slack_add_reaction |-> {"channel", "timestamp", "name"},
   slack_remove_reaction |-> {"channel", "timestamp", "name"},
   slack_search_messages |-> {"query"},
   slack_upload_file |-> {"channels", "content", "filename"}]

SchemaOptional ==
  [slack_post_message |-> {"blocks"},
   slack_update_message |-> {"blocks"},
   slack_delete_message |-> {},
   slack_list_channels |-> {"types", "limit", "cursor"},
   slack_get_channel_info |-> {},
   slack_get_channel_history |-> {"limit", "oldest", "latest", "cursor"},
   slack_get_replies |-> {"limit", "cursor"},
   slack_join_channel |-> {},
   slack_list_users |-> {"limit", "cursor"},
   slack_get_user_info |-> {},
   slack_add_reaction |-> {},
   slack_remove_reaction |-> {},
   slack_search_messages |-> {"sort", "sortDir", "count"},
   slack_upload_file |-> {"title"}]

\* one value of the key's declared type
SampleValue(key) ==
  CASE key \in {"limit", "count"} -> Num(10)
    [] key = "blocks" -> Arr(<<Opaque("block")>>)
    [] key = "channel" -> Str("C1")
    [] key = "text" -> Str("hi")
    [] OTHER -> Str(key)

\* the inputs an invocation of `tool` is tried with: the required keys
\* alone, and the required keys with every optional key
ToolInputs(tool) ==
  {[k \in ks |-> SampleValue(k)] :
     ks \in {SchemaRequired[tool],
             SchemaRequired[tool] \cup SchemaOptional[tool]}}

\* the falsy (for an array: the empty) value of the key's declared type
EdgeValue(key) ==
  CASE key \in {"limit", "count"} -> Num(0)
    [] key = "blocks" -> Arr(<<>>)
    [] OTHER -> Str("")

\* the inputs the schema of `tool` admits, over the sample and the edge
\* values: the required keys, any of the optional keys, each optional key
\* with its sample or its edge value
ArgInputs(tool) ==
  UNION {{[k \in SchemaRequired[tool] \cup S |->
             IF k \in E THEN EdgeValue(k) ELSE SampleValue(k)] :
            E \in SUBSET S} :
         S \in SUBSET SchemaOptional[tool]}

\* the bodies of the remote's 2xx responses
OkBody ==
  [ok |-> Bool(TRUE), channel |-> Opaque("channel"), ts |-> Str("1.0"),
   text |-> Str("hi"), message |-> Opaque("message"),
   channels |-> Opaque("channels"), messages |-> Opaque("messages"),
   has_more |-> Bool(FALSE), members |-> Opaque("members"),
   user |-> Opaque("user"), file |-> Opaque("file")]

Bodies ==
  {OkBody,
   ("response_metadata" :> Rec([next_cursor |-> Str("abc")])) @@ OkBody,
   [ok |-> Bool(FALSE), error |-> Str("channel_not_found")],
   [ok |-> Bool(FALSE)],
   [error |-> Str("channel_not_found")],
   [warning |-> Str("w")]}

\* successful bodies by their response_metadata: none, one with a cursor,
\* one with an empty cursor, one without a cursor
PageBodies ==
  {OkBody,
   ("response_metadata" :> Rec([next_cursor |-> Str("abc")])) @@ OkBody,
   ("response_metadata" :> Rec([next_cursor |-> Str("")])) @@ OkBody,
   ("response_metadata" :> Rec(<<>>)) @@ OkBody}

\* the values of a 429's Retry-After header: none, seconds, an empty string,
\* an HTTP date, and seconds past setTimeout's range
RetryAfterValues ==
  {Null,
   Chars(<<"2">>),
   Chars(<<"0">>),
   Chars(<<>>),
   Chars(<<"W", "e", "d", ",", " ", "2", "1", " ", "O", "c", "t">>),
   Chars(<<"2", "1", "4", "7", "4", "8", "4">>)}

NoBody == <<>>

Responses ==
  {[status |-> 200, statusText |-> "OK", retryAfter |-> Null, body |-> b] :
     b \in Bodies}
  \cup {[status |-> 429, statusText |-> "Too Many Requests",
         retryAfter |-> h, body |-> NoBody] : h \in RetryAfterValues}
  \cup {[status |-> 500, statusText |-> "Internal Server Error",
         retryAfter |-> Null, body |-> NoBody]}

\* ------------------------------------------------------------------------
\* Actions
\* ------------------------------------------------------------------------

\* the host changes process.env.SLACK_BOT_TOKEN
SetEnv(v) ==
  /\ envSets < MaxEnvSets
  /\ v # envToken
  /\ envToken' = v
  /\ envSets' = envSets + 1
  /\ delivered' = IdleProc
  /\ UNCHANGED <<now, startup, clients, constructed, proc, dispatched,
                 timers, requests>>

\* startup: registerTools(server)
RegisterTools ==
  /\ startup = "pending"
  /\ startup' = RegisterToolsOutcome(envToken)
  /\ clients' = [clients EXCEPT !["tools"] = NoClient]
  /\ delivered' = IdleProc
  /\ UNCHANGED <<now, envToken, envSets, constructed, proc, dispatched,
                 timers, requests>>

\* invocation record pr has settled: getClient() or the method threw, or
\* the method returned (s)
Settle(pr, s) ==
  [pr EXCEPT !.pc = "done",
             !.since = 0,
             !.wakeAt = 0,
             !.settled = s,
             !.outcome =
               IF pr.via = "tool"
                 THEN HandlerOutcome(pr.name, s)
                 ELSE IF s.threw
                        THEN [kind |-> "rejected", message |-> s.message]
                        ELSE [kind |-> "returned", value |-> s.value]]

\* p's invocation ends: its caller gets the outcome, the slot is free.
\* `delivered` shows the outcome in the state this step leads to; the step
\* after it clears it (the caller has taken it).
Deliver(p, done) ==
  /\ delivered' = done
  /\ proc' = [proc EXCEPT ![p] = IdleProc]

\* the host invokes `tool` with `input`: the handler runs getClient() and
\* the client method up to the first await
ToolInvoke(p, tool, input) ==
  /\ startup = "registered"
  /\ proc[p].pc = "idle"
  /\ requests < MaxRequests
  /\ LET got == GetClient(clients["tools"], envToken)
         req == MethodRequest(ToolMethod[tool], input)
         pr == [IdleProc EXCEPT !.via = "tool", !.inst = "tools",
                                !.name = tool, !.args = input,
                                !.method = ToolMethod[tool],
                                !.endpoint = req.endpoint, !.data = req.data]
     IN IF got.threw
          THEN /\ Deliver(p, Settle(pr, [threw |-> TRUE,
                                         message |-> got.message]))
               /\ constructed' =
                    [constructed EXCEPT !["tools"].failed = TRUE]
               /\ UNCHANGED <<clients, dispatched, timers, requests>>
          ELSE /\ Apply(p, EnterRequest(pr, got.client))
               /\ constructed' =
                    IF clients["tools"].t = "null"
                      THEN [constructed EXCEPT
                              !["tools"] =
                                [ConstructedFrom(Undefined, envToken) EXCEPT
                                   !.failed = constructed["tools"].failed]]
                      ELSE constructed
               /\ delivered' = IdleProc
  /\ UNCHANGED <<now, envToken, envSets, startup>>

\* the timer of rateLimit() fires: the stamp, then the fetch
RateLimitWake(p) ==
  /\ proc[p].pc = "rateLimit"
  /\ now >= proc[p].wakeAt
  /\ requests < MaxRequests
  /\ Apply(p, StampAndFetch(proc[p], clients[proc[p].inst]))
  /\ delivered' = IdleProc
  /\ UNCHANGED <<now, envToken, envSets, startup, constructed>>

\* request() clearing the stamp when it throws (`this.lastRequestTime = 0`
\* before the throw), so that a failed request does not count
RespondRollback(p, resp) ==
  /\ proc[p].pc = "fetch"
  /\ LET out == RequestOutcome(resp)
         pr == [proc[p] EXCEPT
                  !.response = resp,
                  !.throttles = IF resp.status = 429 THEN @ + 1 ELSE @]
     IN CASE out.kind = "retry" ->
               /\ proc' = [proc EXCEPT
                             ![p] = [pr EXCEPT !.pc = "retryWait",
                                               !.since = now,
                                               !.wakeAt = now + out.delay]]
               /\ timers' = timers \cup {Timer(p, now + out.delay)}
               /\ delivered' = IdleProc
               /\ UNCHANGED clients
          [] out.kind = "throw" ->
               /\ Deliver(p, Settle(pr, [threw |-> TRUE,
                                         message |-> out.message]))
               /\ clients' = [clients EXCEPT
                                ![pr.inst].lastRequestTime = 0]
               /\ UNCHANGED timers
          [] out.kind = "return" ->
               /\ Deliver(p, Settle(pr, [threw |-> FALSE,
                                         value |-> MethodReturn(pr.method,
                                                                out.result)]))
               /\ UNCHANGED <<clients, timers>>
  /\ UNCHANGED <<now, envToken, envSets, startup, constructed, dispatched,
                 requests>>

\* request() giving up on its third 429: it throws the HTTP error instead of
\* retrying once more
RespondGivesUp(p, resp) ==
  /\ proc[p].pc = "fetch"
  /\ LET out == IF resp.status = 429 /\ proc[p].attempts >= 3
                  THEN [kind |-> "throw",
                        message |-> HttpErrorMessage(resp.status,
                                                     resp.statusText)]
                  ELSE RequestOutcome(resp)
         pr == [proc[p] EXCEPT
                  !.response = resp,
                  !.throttles = IF resp.status = 429 THEN @ + 1 ELSE @]
     IN CASE out.kind = "retry" ->
               /\ proc' = [proc EXCEPT
                             ![p] = [pr EXCEPT !.pc = "retryWait",
                                               !.since = now,
                                               !.wakeAt = now + out.delay]]
               /\ timers' = timers \cup {Timer(p, now + out.delay)}
               /\ delivered' = IdleProc
          [] out.kind = "throw" ->
               /\ Deliver(p, Settle(pr, [threw |-> TRUE,
                                         message |-> out.message]))
               /\ UNCHANGED timers
          [] out.kind = "return" ->
               /\ Deliver(p, Settle(pr, [threw |-> FALSE,
                                         value |-> MethodReturn(pr.method,
                                                                out.result)]))
               /\ UNCHANGED timers
  /\ UNCHANGED <<now, envToken, envSets, startup, clients, constructed,
                 dispatched, requests>>

\* the remote answers p's request with resp
Respond(p, resp) ==
  /\ proc[p].pc = "fetch"
  /\ LET out == RequestOutcome(resp)
         pr == [proc[p] EXCEPT
                  !.response = resp,
                  !.throttles = IF resp.status = 429 THEN @ + 1 ELSE @]
     IN CASE out.kind = "retry" ->
               /\ proc' = [proc EXCEPT
                             ![p] = [pr EXCEPT !.pc = "retryWait",
                                               !.since = now,
                                               !.wakeAt = now + out.delay]]
               /\ timers' = timers \cup {Timer(p, now + out.delay)}
               /\ delivered' = IdleProc
          [] out.kind = "throw" ->
               /\ Deliver(p, Settle(pr, [threw |-> TRUE,
                                         message |-> out.message]))
               /\ UNCHANGED timers
          [] out.kind = "return" ->
               /\ Deliver(p, Settle(pr, [threw |-> FALSE,
                                         value |-> MethodReturn(pr.method,
                                                                out.result)]))
               /\ UNCHANGED timers
  /\ UNCHANGED <<now, envToken, envSets, startup, clients, constructed,
                 dispatched, requests>>

\* the 429 branch calling fetch again without going through rateLimit()
RetryWakeDirect(p) ==
  /\ proc[p].pc = "retryWait"
  /\ now >= proc[p].wakeAt
  /\ requests < MaxRequests
  /\ Apply(p, StampAndFetch(proc[p], clients[proc[p].inst]))
  /\ delivered' = IdleProc
  /\ UNCHANGED <<now, envToken, envSets, startup, constructed>>

\* the timer of the 429 branch fires: request(endpoint, data) again
RetryWake(p) ==
  /\ proc[p].pc = "retryWait"
  /\ now >= proc[p].wakeAt
  /\ requests < MaxRequests
  /\ Apply(p, EnterRequest(proc[p], clients[proc[p].inst]))
  /\ delivered' = IdleProc
  /\ UNCHANGED <<now, envToken, envSets, startup, constructed>>

\* library code runs `new SlackClient(token)` and keeps the client as i
LibNew(p, i, token) ==
  /\ proc[p].pc = "idle"
  /\ clients[i].t = "null"
  /\ LET made == SlackClientNew(token, envToken)
         pr == [IdleProc EXCEPT !.via = "new", !.inst = i,
                                !.name = "SlackClient",
                                !.args = [token |-> token, env |-> envToken]]
     IN IF made.threw
          THEN /\ Deliver(p, Settle(pr, [threw |-> TRUE,
                                         message |-> made.message]))
               /\ constructed' = [constructed EXCEPT ![i].failed = TRUE]
               /\ UNCHANGED clients
          ELSE /\ Deliver(p, Settle(pr, [threw |-> FALSE,
                                         value |-> Opaque("SlackClient")]))
               /\ clients' = [clients EXCEPT ![i] = made.client]
               /\ constructed' =
                    [constructed EXCEPT
                       ![i] = [ConstructedFrom(token, envToken) EXCEPT
                                 !.failed = constructed[i].failed]]
  /\ UNCHANGED <<now, envToken, envSets, startup, dispatched, timers,
                 requests>>

\* library code calls method m of client i with arguments a
LibCall(p, i, m, a) ==
  /\ proc[p].pc = "idle"
  /\ clients[i].t = "client"
  /\ requests < MaxRequests
  /\ LET req == MethodRequest(m, a)
         pr == [IdleProc EXCEPT !.via = "lib", !.inst = i, !.name = m,
                                !.args = a, !.method = m,
                                !.endpoint = req.endpoint, !.data = req.data]
     IN Apply(p, EnterRequest(pr, clients[i]))
  /\ delivered' = IdleProc
  /\ UNCHANGED <<now, envToken, envSets, startup, constructed>>

\* the times the clock may advance to: one step on, while within the
\* horizon, or the time a pending timer is due
TickTargets ==
  (IF now + TickStep <= StartTime + Horizon THEN {now + TickStep} ELSE {})
  \cup {proc[p].wakeAt :
          p \in {q \in Procs : Sleeping(q) /\ proc[q].wakeAt > now}}

\* the clock advances; a timer may fire late, never early
Tick ==
  /\ now' \in TickTargets
  /\ delivered' = IdleProc
  /\ UNCHANGED <<envToken, envSets, startup, clients, constructed, proc,
                 dispatched, timers, requests>>

\* ------------------------------------------------------------------------
\* Specifications
\* ------------------------------------------------------------------------

\* the calls concurrent invocations are tried with
ConcurrentCalls ==
  {<<"slack_post_message", [channel |-> Str("C1"), text |-> Str("hi")]>>,
   <<"slack_list_channels", [cursor |-> Str("abc")]>>}

\* the responses concurrent invocations are answered with: one of each
\* kind of outcome, a 429 with a short and with a longer wait
ConcurrentResponses ==
  {r \in Responses :
     \/ r.status = 200 /\ r.body \in {OkBody, [ok |-> Bool(FALSE)]}
     \/ r.status = 429 /\ r.retryAfter \in {Chars(<<"0">>), Chars(<<"2">>)}
     \/ r.status = 500}

\* Spec: the tools of one registerTools call, invoked concurrently
Next ==
  \/ RegisterTools
  \/ \E p \in Procs, c \in ConcurrentCalls : ToolInvoke(p, c[1], c[2])
  \/ \E p \in Procs : RateLimitWake(p)
  \/ \E p \in Procs, resp \in ConcurrentResponses : Respond(p, resp)
  \/ \E p \in Procs : RetryWake(p)
  \/ Tick

Spec == Init /\ [][Next]_vars

\* SpecSeq: one caller invokes the tools back to back, each invocation
\* started after the one before has settled
NextSeq ==
  \/ RegisterTools
  \/ \E v \in EnvValues : SetEnv(v)
  \/ \E tool \in Tools :
       \E input \in ToolInputs(tool) : ToolInvoke(1, tool, input)
  \/ RateLimitWake(1)
  \/ \E resp \in Responses : Respond(1, resp)
  \/ RetryWake(1)
  \/ Tick

SpecSeq == Init /\ [][NextSeq]_vars

\* SpecArgs: one caller invokes the tools with every input of ArgInputs; the
\* remote answers with the successful bodies of PageBodies
NextArgs ==
  \/ RegisterTools
  \/ \E tool \in Tools :
       \E input \in ArgInputs(tool) : ToolInvoke(1, tool, input)
  \/ RateLimitWake(1)
  \/ \E b \in PageBodies :
       Respond(1, [status |-> 200, statusText |-> "OK", retryAfter |-> Null,
                   body |-> b])
  \/ Tick

SpecArgs == Init /\ [][NextArgs]_vars

\* the tokens library code constructs a client with
TokenArgs == {Undefined, Str(""), Str("xoxb-arg")}

\* the method calls library code makes
LibCalls ==
  {<<"postMessage", [channel |-> Str("C1"), text |-> Str("hi")]>>,
   <<"listUsers", <<>>>>}

\* SpecLib: library code constructs the clients A and B itself and calls
\* their methods, one call at a time
NextLib ==
  \/ \E v \in EnvValues : SetEnv(v)
  \/ \E i \in {"A", "B"}, token \in TokenArgs : LibNew(1, i, token)
  \/ \E i \in {"A", "B"}, c \in LibCalls : LibCall(1, i, c[1], c[2])
  \/ RateLimitWake(1)
  \/ \E resp \in ConcurrentResponses : Respond(1, resp)
  \/ RetryWake(1)
  \/ Tick

SpecLib == Init /\ [][NextLib]_vars

\* SpecRetry: one caller invokes slack_post_message; the remote may answer
\* or stay silent; a timer that is due fires and the clock goes on
NextRetry ==
  \/ RegisterTools
  \/ ToolInvoke(1, "slack_post_message",
                [channel |-> Str("C1"), text |-> Str("hi")])
  \/ RateLimitWake(1)
  \/ \E resp \in ConcurrentResponses : Respond(1, resp)
  \/ RetryWake(1)
  \/ Tick

SpecRetry ==
  /\ Init
  /\ [][NextRetry]_vars
  /\ WF_vars(RateLimitWake(1))
  /\ WF_vars(RetryWake(1))
  /\ WF_vars(Tick)

\* the client each of two callers constructs and uses
Owner(p) == IF p = 1 THEN "A" ELSE "B"

\* SpecTwo: two callers, each with a client of its own, run concurrently;
\* each makes its calls one at a time
NextTwo ==
  \/ \E p \in Procs : LibNew(p, Owner(p), Str("xoxb-arg"))
  \/ \E p \in Procs, c \in LibCalls : LibCall(p, Owner(p), c[1], c[2])
  \/ \E p \in Procs : RateLimitWake(p)
  \/ \E p \in Procs, resp \in ConcurrentResponses : Respond(p, resp)
  \/ \E p \in Procs : RetryWake(p)
  \/ Tick

SpecTwo == Init /\ [][NextTwo]_vars

\* ------------------------------------------------------------------------
\* Properties
\* ------------------------------------------------------------------------

\* the time between the starts of instance i's last two requests
Gap(i) == dispatched[i][2] - dispatched[i][1]

(* C1: under concurrent invocations through one client instance, no two   *)
(* of its network requests begin less than RATE_LIMIT_DELAY ms apart.     *)
C1_SpacingUnderConcurrency ==
  \A i \in Instances :
    Len(dispatched[i]) = 2 => Gap(i) >= RATE_LIMIT_DELAY

(* C2: when the calls are made back to back (SpecSeq), successive network *)
(* requests of the client begin at least RATE_LIMIT_DELAY ms apart,       *)
(* whatever the earlier calls ended in.                                    *)
C2_SpacingBackToBack ==
  requests >= 2 =>
    /\ Len(dispatched["tools"]) = 2
    /\ dispatched["tools"][2] >= dispatched["tools"][1] + RATE_LIMIT_DELAY

\* a later call's first request went out exactly RATE_LIMIT_DELAY ms after
\* the request before it: the call had to wait for the rest of the interval
C2_Witness ==
  /\ requests >= 2
  /\ proc[1].pc = "fetch"
  /\ proc[1].attempts = 1
  /\ Gap("tools") = RATE_LIMIT_DELAY

\* the string s occurs among the parts of text
Contains(text, s) == \E k \in 1..Len(text) : text[k] = s

\* a Retry-After header that is a number of seconds: decimal digits only
IsSeconds(h) ==
  /\ h.t = "chars"
  /\ Len(h.v) > 0
  /\ \A k \in 1..Len(h.v) : h.v[k] \in DOMAIN DigitValue

Seconds(h) == DigitsValue(h.v, 0)

(* C3: after a 429 whose Retry-After is n seconds the client is suspended *)
(* for at least n seconds (its timer is due no earlier than n*1000 ms     *)
(* after it was set), and the request it sends next has the endpoint and  *)
(* the payload of the call.                                                *)
C3_RetryAfterHonoured ==
  \A p \in Procs :
    /\ (proc[p].pc = "retryWait" /\ IsSeconds(proc[p].response.retryAfter))
         => (proc[p].wakeAt - proc[p].since) \div 1000
              >= Seconds(proc[p].response.retryAfter)
    /\ (proc[p].pc = "fetch" /\ proc[p].attempts >= 2)
         => /\ proc[p].wire.url = <<BASE_URL, "/", proc[p].endpoint>>
            /\ proc[p].wire.body = proc[p].data

(* C4: after a 429 whose Retry-After is absent or is not a number of      *)
(* seconds the client is suspended for DEFAULT_RETRY_DELAY ms.            *)
C4_DefaultWhenNotSeconds ==
  \A p \in Procs :
    (proc[p].pc = "retryWait" /\ ~IsSeconds(proc[p].response.retryAfter))
      => proc[p].wakeAt - proc[p].since = DEFAULT_RETRY_DELAY

(* C5: no invocation ends on a 429: while its last response is a 429 the  *)
(* invocation is asleep before its retry, and an invocation that sent a   *)
(* request ends as a success (2xx, ok true), as a transport failure       *)
(* (neither 2xx nor 429) or as an application failure (2xx, ok not true). *)
C5_ThrottlingAbsorbed ==
  /\ \A p \in Procs :
       proc[p].response.status = 429 => proc[p].pc = "retryWait"
  /\ (delivered.pc = "done" /\ delivered.attempts > 0) =>
       LET st == delivered.response.status
           ok == Get(delivered.response.body, "ok")
           okTrue == ok.t = "boolean" /\ ok.v
       IN /\ st # 429
          /\ IF delivered.settled.threw
               THEN st \notin 200..299 \/ ~okTrue
               ELSE st \in 200..299 /\ okTrue

\* an invocation that was throttled at least once ended in success
C5_Witness ==
  /\ delivered.pc = "done"
  /\ delivered.attempts >= 2
  /\ ~delivered.settled.threw

(* C6: a response that is neither 2xx nor 429 ends the invocation at once *)
(* (no invocation still running has seen one, so it sends nothing more);  *)
(* the error carries the status code and text, and the tool's envelope is *)
(* a failure whose message contains the status code.                      *)
C6_HttpErrorFailsOnce ==
  /\ \A p \in Procs :
       proc[p].pc # "idle" =>
         proc[p].response.status \in {0, 429} \cup 200..299
  /\ (/\ delivered.pc = "done"
      /\ delivered.attempts > 0
      /\ delivered.response.status \notin 200..299) =>
       /\ delivered.settled.threw
       /\ delivered.settled.message =
            <<"Slack API error: ", ToString(delivered.response.status), " ",
              delivered.response.statusText>>
       /\ delivered.via = "tool" =>
            /\ delivered.outcome.kind = "resolved"
            /\ "isError" \in DOMAIN delivered.outcome.envelope
            /\ Contains(delivered.outcome.envelope.content.v,
                        ToString(delivered.response.status))

\* a tool invocation failed on a 500 after exactly one request
C6_Witness ==
  /\ delivered.pc = "done"
  /\ delivered.via = "tool"
  /\ delivered.response.status = 500
  /\ delivered.attempts = 1
  /\ delivered.outcome.envelope.isError

\* the error string a failing body is reported with
ReportedError(body) ==
  IF "error" \in DOMAIN body /\ body.error.v # ""
    THEN body.error.v
    ELSE "Unknown error"

(* C7: a 2xx response ends the invocation (no retry); it succeeds exactly *)
(* when the body's ok is true, and otherwise fails with the body's error  *)
(* string, or "Unknown error" when it has none: the tool resolves to a    *)
(* failure envelope that contains that string.                            *)
C7_ApiErrorReported ==
  /\ \A p \in Procs :
       proc[p].response.status \in 200..299 => proc[p].pc = "idle"
  /\ (delivered.pc = "done" /\ delivered.response.status \in 200..299) =>
       LET body == delivered.response.body
           okTrue == "ok" \in DOMAIN body /\ body.ok = Bool(TRUE)
       IN /\ delivered.settled.threw <=> ~okTrue
          /\ ~okTrue =>
               /\ delivered.settled.message =
                    <<"Slack API error: ", ReportedError(body)>>
               /\ delivered.via = "tool" =>
                    /\ delivered.outcome.kind = "resolved"
                    /\ "isError" \in DOMAIN delivered.outcome.envelope
                    /\ Contains(delivered.outcome.envelope.content.v,
                                ReportedError(body))

\* the remote answered {ok: false, error: "channel_not_found"} with 200 and
\* the tool resolved to a failure envelope naming it
C7_Witness ==
  /\ delivered.pc = "done"
  /\ delivered.via = "tool"
  /\ delivered.response.status = 200
  /\ delivered.response.body =
       [ok |-> Bool(FALSE), error |-> Str("channel_not_found")]
  /\ delivered.outcome.kind = "resolved"
  /\ Contains(delivered.outcome.envelope.content.v, "channel_not_found")

(* C8: a tool invocation that finishes resolves to an envelope and never  *)
(* rejects; the envelope has isError (true) and the text "Error: " with   *)
(* the message exactly when getClient() or the client method threw, and   *)
(* otherwise has the serialized result and no isError.                    *)
C8_AlwaysAnEnvelope ==
  (delivered.pc = "done" /\ delivered.via = "tool") =>
    /\ delivered.outcome.kind = "resolved"
    /\ LET env == delivered.outcome.envelope
       IN /\ "isError" \in DOMAIN env <=> delivered.settled.threw
          /\ delivered.settled.threw =>
               /\ env.isError
               /\ env.content.t = "text"
               /\ env.content.v = <<"Error: ">> \o delivered.settled.message
          /\ ~delivered.settled.threw => env.content.t = "json"

\* getClient() threw (no credential): the invocation resolved to a failure
\* envelope without sending anything
C8_Witness ==
  /\ delivered.pc = "done"
  /\ delivered.via = "tool"
  /\ delivered.attempts = 0
  /\ delivered.settled.threw
  /\ delivered.outcome.kind = "resolved"
  /\ delivered.outcome.envelope.isError

\* the credential `new SlackClient(token)` fixes: token || envToken
FixedCredential(i) ==
  IF Truthy(constructed[i].token)
    THEN constructed[i].token
    ELSE constructed[i].env

(* C9: `new SlackClient(token)` throws exactly when neither the token nor *)
(* SLACK_BOT_TOKEN is set, and then no client exists; an instance without *)
(* a client has sent no request; a client's token is non-empty and is the *)
(* explicit argument if given, else the environment's value at            *)
(* construction; every request sent carries it as the bearer; and no step *)
(* changes the token of a client (a later change of the environment       *)
(* included).                                                              *)
C9_CredentialFixedAtConstruction ==
  /\ [](/\ \A i \in Instances :
            /\ clients[i].t = "null" =>
                 /\ dispatched[i] = <<>>
                 /\ \A p \in Procs : proc[p].inst # i
            /\ clients[i].t = "client" =>
                 /\ constructed[i].done
                 /\ Truthy(clients[i].token)
                 /\ clients[i].token = FixedCredential(i)
        /\ \A p \in Procs :
            proc[p].attempts > 0 =>
              proc[p].wire.authorization =
                <<"Bearer ", FixedCredential(proc[p].inst).v>>
        /\ (delivered.pc = "done" /\ delivered.via = "new") =>
            /\ delivered.settled.threw <=>
                 (~Truthy(delivered.args.token) /\ ~Truthy(delivered.args.env))
            /\ delivered.settled.threw =>
                 /\ delivered.settled.message = MissingTokenMessage
                 /\ clients[delivered.inst].t = "null")
  /\ [][\A i \in Instances :
          clients[i].t = "client" =>
            /\ clients'[i].t = "client"
            /\ clients'[i].token = clients[i].token]_vars

\* client A, constructed without a token while SLACK_BOT_TOKEN was set, has
\* sent a request with that value; the variable was then unset, and
\* constructing B without a token has just failed
C9_Witness ==
  /\ clients["A"].t = "client"
  /\ constructed["A"].token = Undefined
  /\ clients["A"].token = Str("xoxb-env")
  /\ dispatched["A"] # <<>>
  /\ envToken = Undefined
  /\ delivered.pc = "done"
  /\ delivered.via = "new"
  /\ delivered.inst = "B"
  /\ delivered.settled.threw
  /\ clients["B"].t = "null"

(* C10 as stated: without SLACK_BOT_TOKEN, registerTools fails at startup *)
(* and no invocation ever reports the missing credential.                 *)
C10_StartupFatal ==
  ~Truthy(envToken) =>
    /\ startup \in {"pending", "failed"}
    /\ ~(delivered.pc = "done" /\ delivered.via = "tool")

(* C10 amended: without SLACK_BOT_TOKEN, registerTools still succeeds and *)
(* constructs no client; the failure appears when a tool is invoked: each *)
(* invocation resolves to a failure envelope with the constructor's       *)
(* message, no client is kept and no request is sent.                     *)
C10_FailsOnInvocation ==
  ~Truthy(envToken) =>
    /\ startup \in {"pending", "registered"}
    /\ clients["tools"] = NoClient
    /\ requests = 0
    /\ \A p \in Procs : proc[p].pc = "idle"
    /\ (delivered.pc = "done" /\ delivered.via = "tool") =>
         /\ delivered.attempts = 0
         /\ delivered.settled.threw
         /\ delivered.outcome =
              [kind |-> "resolved",
               envelope |-> ErrorResult(MissingTokenMessage)]

\* registerTools has succeeded without SLACK_BOT_TOKEN and an invocation
\* has resolved to the failure envelope
C10_Witness ==
  /\ ~Truthy(envToken)
  /\ startup = "registered"
  /\ delivered.pc = "done"
  /\ delivered.via = "tool"
  /\ delivered.outcome.kind = "resolved"
  /\ delivered.outcome.envelope = ErrorResult(MissingTokenMessage)

\* the payload key an input key is sent as
WireKey(k) == IF k = "sortDir" THEN "sort_dir" ELSE k

(* C11: the payload of a tool invocation has exactly one key for each key *)
(* of its input (the required keys and the optional keys supplied, also   *)
(* those supplied as 0, "" or []), with the input's value, and so has the *)
(* body of every request sent for it.                                     *)
C11_PayloadKeysAsSupplied ==
  \A p \in Procs :
    proc[p].via = "tool" =>
      LET a == proc[p].args
      IN /\ DOMAIN proc[p].data = {WireKey(k) : k \in DOMAIN a}
         /\ \A k \in DOMAIN a : proc[p].data[WireKey(k)] = a[k]
         /\ proc[p].attempts > 0 => proc[p].wire.body = proc[p].data

\* the tools whose methods return a next_cursor
Paginated ==
  {"slack_list_channels", "slack_get_channel_history", "slack_get_replies",
   "slack_list_users"}

(* C12: when a paginated tool succeeds on a body whose response_metadata  *)
(* has next_cursor = c, the method's value has next_cursor = c and so has *)
(* the JSON text returned to the host; when the body has no such field,   *)
(* the method's next_cursor is undefined and the JSON text has no         *)
(* next_cursor key.                                                        *)
C12_CursorPassedThrough ==
  (/\ delivered.pc = "done"
   /\ delivered.via = "tool"
   /\ delivered.name \in Paginated
   /\ ~delivered.settled.threw) =>
    LET body == delivered.response.body
        has == /\ "response_metadata" \in DOMAIN body
               /\ "next_cursor" \in DOMAIN body.response_metadata.v
        value == delivered.settled.value.v
        text == delivered.outcome.envelope.content.v.v
    IN IF has
         THEN /\ value.next_cursor = body.response_metadata.v.next_cursor
              /\ "next_cursor" \in DOMAIN text
              /\ text.next_cursor = body.response_metadata.v.next_cursor
         ELSE /\ value.next_cursor = Undefined
              /\ "next_cursor" \notin DOMAIN text

\* slack_list_users succeeded on a body whose response_metadata has no
\* next_cursor: the text for the host has members and no next_cursor
C12_Witness ==
  /\ delivered.pc = "done"
  /\ delivered.name = "slack_list_users"
  /\ ~delivered.settled.threw
  /\ "response_metadata" \in DOMAIN delivered.response.body
  /\ delivered.response.body.response_metadata = Rec(<<>>)
  /\ DOMAIN delivered.outcome.envelope.content.v.v = {"members"}

\* the start time of instance i's last request
LastDispatch(i) == dispatched[i][Len(dispatched[i])]

(* C13: with two clients used side by side, a call waits in rateLimit()   *)
(* only on account of its own client's last request (less than            *)
(* RATE_LIMIT_DELAY ms before); each client spaces its own requests; and  *)
(* a step in which one client sends a request leaves every other client   *)
(* as it was.                                                              *)
C13_InstancesIndependent ==
  /\ [](/\ \A p \in Procs :
            proc[p].pc = "rateLimit" =>
              /\ dispatched[proc[p].inst] # <<>>
              /\ proc[p].since - LastDispatch(proc[p].inst) < RATE_LIMIT_DELAY
        /\ \A i \in Instances :
            Len(dispatched[i]) = 2 => Gap(i) >= RATE_LIMIT_DELAY)
  /\ [][\A p \in Procs :
          (requests' = requests + 1 /\ proc'[p] # proc[p]) =>
            \A j \in Instances \ {proc'[p].inst} : clients'[j] = clients[j]]_vars

\* A and B have each a request in flight, sent less than RATE_LIMIT_DELAY
\* ms apart, B's without a wait
C13_Witness ==
  /\ proc[1].pc = "fetch"
  /\ proc[2].pc = "fetch"
  /\ proc[1].inst = "A"
  /\ proc[2].inst = "B"
  /\ LastDispatch("B") - LastDispatch("A") \in 0..(RATE_LIMIT_DELAY - 1)
  /\ clients["A"].lastRequestTime = LastDispatch("A")
  /\ clients["B"].lastRequestTime = LastDispatch("B")

(* C14: a response ends the call exactly when it is not a 429: on a 429,  *)
(* however many came before, the call sleeps and has not ended, and on    *)
(* any other response it ends in that step; the sleep ends only in the    *)
(* same request being entered again; and a call asleep after a 429 sends  *)
(* its next request (while the model's bound on requests allows one).     *)
C14_RetryUntilNot429 ==
  /\ [][\A p \in Procs :
          (proc[p].pc = "fetch" /\ proc'[p] # proc[p]) =>
            \/ /\ proc'[p].pc = "retryWait"
               /\ proc'[p].response.status = 429
               /\ proc'[p].attempts = proc[p].attempts
            \/ /\ proc'[p].pc = "idle"
               /\ delivered'.pc = "done"
               /\ delivered'.response.status # 429
               /\ delivered'.attempts = proc[p].attempts]_vars
  /\ [][\A p \in Procs :
          (proc[p].pc = "retryWait" /\ proc'[p] # proc[p]) =>
            /\ proc'[p].pc \in {"rateLimit", "fetch"}
            /\ proc'[p].endpoint = proc[p].endpoint
            /\ proc'[p].data = proc[p].data
            /\ proc'[p].pc = "fetch" =>
                 proc'[p].attempts = proc[p].attempts + 1]_vars
  /\ \A p \in Procs :
       (proc[p].pc = "retryWait" /\ requests < MaxRequests)
         ~> (proc[p].pc = "fetch")

\* the call has sent its third request, after two 429 responses
C14_Witness ==
  /\ proc[1].pc = "fetch"
  /\ proc[1].attempts >= 3

\* the last-dispatch timestamp request() finds: that of the client, 0 for
\* a client constructed for this call
StampFound(i) ==
  IF clients[i].t = "client" THEN clients[i].lastRequestTime ELSE 0

(* C15: a step that sends a request, first attempt or retry, writes the   *)
(* stamp and is either the end of a rate-limit wait of that invocation or *)
(* made straight from the check with RATE_LIMIT_DELAY ms elapsed; and a   *)
(* retry whose Retry-After sleep ends with less than RATE_LIMIT_DELAY ms  *)
(* elapsed goes into the rate-limit wait for the remainder, not to the    *)
(* network.                                                                *)
C15_EveryRequestThroughRateLimit ==
  /\ [][\A p \in Procs :
          (requests' = requests + 1 /\ proc'[p] # proc[p]) =>
            /\ clients'[proc'[p].inst].lastRequestTime = now
            /\ \/ /\ proc[p].pc \in {"idle", "retryWait"}
                  /\ now - StampFound(proc'[p].inst) >= RATE_LIMIT_DELAY
               \/ /\ proc[p].pc = "rateLimit"
                  /\ now >= proc[p].wakeAt
                  /\ proc[p].wakeAt - proc[p].since \in 1..RATE_LIMIT_DELAY]_vars
  /\ [][\A p \in Procs :
          (/\ proc[p].pc = "retryWait"
           /\ proc'[p] # proc[p]
           /\ now - StampFound(proc[p].inst) < RATE_LIMIT_DELAY) =>
            /\ proc'[p].pc = "rateLimit"
            /\ proc'[p].attempts = proc[p].attempts
            /\ proc'[p].wakeAt =
                 StampFound(proc[p].inst) + RATE_LIMIT_DELAY]_vars

\* a retry is asleep in rateLimit(): its Retry-After sleep ended before the
\* interval since the client's last request had passed
C15_Witness ==
  \E p \in Procs :
    /\ proc[p].pc = "rateLimit"
    /\ proc[p].attempts >= 1
    /\ proc[p].since - StampFound(proc[p].inst) < RATE_LIMIT_DELAY

(* C16: at no time are two invocations of one client both between the    *)
(* read of lastRequestTime and the write of their stamp, that is, both    *)
(* asleep in rateLimit().                                                  *)
C16_CheckAndStampExclusive ==
  \A p, q \in Procs :
    (/\ p # q
     /\ proc[p].pc = "rateLimit"
     /\ proc[q].pc = "rateLimit") => proc[p].inst # proc[q].inst

(* C17: the stamp is written in the step that sends the request, with the *)
(* time of that step: after a wait that is the time the timer fired,      *)
(* later than the time of the check; entering the wait writes nothing.    *)
(* So a client that has sent a request holds the start time of its last   *)
(* request, and one that has sent none holds 0.                           *)
C17_StampAfterWaitBeforeSend ==
  /\ [](\A i \in Instances :
          clients[i].t = "client" =>
            clients[i].lastRequestTime =
              IF dispatched[i] = <<>> THEN 0 ELSE LastDispatch(i))
  /\ [][\A p \in Procs :
          /\ (requests' = requests + 1 /\ proc'[p] # proc[p]) =>
               /\ proc'[p].pc = "fetch"
               /\ clients'[proc'[p].inst].lastRequestTime = now
               /\ proc[p].pc = "rateLimit" =>
                    (now >= proc[p].wakeAt /\ now > proc[p].since)
          /\ (proc'[p].pc = "rateLimit" /\ proc[p].pc # "rateLimit") =>
               /\ requests' = requests
               /\ clients'[proc'[p].inst].lastRequestTime =
                    StampFound(proc'[p].inst)]_vars

\* the client's second request went out after a wait and the client holds
\* its start time, not the time of the check
C17_Witness ==
  /\ Len(dispatched["tools"]) = 2
  /\ dispatched["tools"][2] > dispatched["tools"][1]
  /\ clients["tools"].lastRequestTime = dispatched["tools"][2]
  /\ \E p \in Procs : proc[p].pc = "fetch" /\ proc[p].attempts = 2

\* the catalog: the remote capability of each action
CatalogEndpoint ==
  [slack_post_message |-> "chat.postMessage",
   slack_update_message |-> "chat.update",
   slack_delete_message |-> "chat.delete",
   slack_list_channels |-> "conversations.list",
   slack_get_channel_info |-> "conversations.info",
   slack_get_channel_history |-> "conversations.history",
   slack_get_replies |-> "conversations.replies",
   slack_join_channel |-> "conversations.join",
   slack_list_users |-> "users.list",
   slack_get_user_info |-> "users.info",
   slack_add_reaction |-> "reactions.add",
   slack_remove_reaction |-> "reactions.remove",
   slack_search_messages |-> "search.messages",
   slack_upload_file |-> "files.upload"]

\* every request of a tool invocation goes to the catalog's endpoint, and
\* an invocation under way has sent one request per 429 it got, and one
\* more while it awaits a response
RequestsToCatalogEndpoint ==
  \A p \in Procs :
    proc[p].via = "tool" =>
      /\ proc[p].endpoint = CatalogEndpoint[proc[p].name]
      /\ proc[p].attempts > 0 =>
           proc[p].wire.url = <<BASE_URL, "/", CatalogEndpoint[proc[p].name]>>
      /\ proc[p].attempts =
           proc[p].throttles + (IF proc[p].pc = "fetch" THEN 1 ELSE 0)

(* C18 as stated: every request of a tool invocation goes to the          *)
(* catalog's endpoint for the tool, and an invocation that ends without   *)
(* having got a 429 has made exactly one request.                         *)
C18_ExactlyOneRequest ==
  /\ RequestsToCatalogEndpoint
  /\ (delivered.pc = "done" /\ delivered.via = "tool") =>
       /\ delivered.attempts = delivered.throttles + 1
       /\ delivered.wire.url =
            <<BASE_URL, "/", CatalogEndpoint[delivered.name]>>

(* C18 amended: as stated for an invocation whose client exists; an       *)
(* invocation whose getClient() threw (no credential) has called no       *)
(* method and made no request.                                            *)
C18_OneRequestUnlessNoClient ==
  /\ RequestsToCatalogEndpoint
  /\ (delivered.pc = "done" /\ delivered.via = "tool") =>
       IF clients["tools"].t = "null"
         THEN /\ delivered.attempts = 0
              /\ delivered.throttles = 0
              /\ delivered.wire = NoWire
              /\ delivered.settled.threw
         ELSE /\ delivered.attempts = delivered.throttles + 1
              /\ delivered.wire.url =
                   <<BASE_URL, "/", CatalogEndpoint[delivered.name]>>

\* slack_remove_reaction ended after one request, to reactions.remove,
\* having got no 429
C18_Witness ==
  /\ delivered.pc = "done"
  /\ delivered.name = "slack_remove_reaction"
  /\ delivered.throttles = 0
  /\ delivered.attempts = 1
  /\ delivered.wire.url = <<BASE_URL, "/", "reactions.remove">>

\* no invocation is in flight
Quiescent == \A p \in Procs : proc[p].pc = "idle"

(* C19: every pending timer is one that an invocation in flight is asleep *)
(* on; so when no invocation is in flight no timer is pending, nothing of *)
(* an invocation is left, and a client is its credential, as fixed at     *)
(* construction, and the start time of its last request.                  *)
C19_QuiescentBetweenInvocations ==
  /\ \A t \in timers :
       /\ proc[t.p].pc \in {"rateLimit", "retryWait"}
       /\ proc[t.p].wakeAt = t.due
  /\ Quiescent =>
       /\ timers = {}
       /\ \A p \in Procs : proc[p] = IdleProc
       /\ \A i \in Instances :
            clients[i].t = "client" =>
              clients[i] =
                [t |-> "client",
                 token |-> FixedCredential(i),
                 lastRequestTime |->
                   IF dispatched[i] = <<>> THEN 0 ELSE LastDispatch(i)]

\* an invocation that slept after a 429 has ended and no other is in
\* flight: no timer is left
C19_Witness ==
  /\ Quiescent
  /\ delivered.pc = "done"
  /\ delivered.throttles >= 1
  /\ timers = {}
  /\ clients["tools"].lastRequestTime = LastDispatch("tools")

\* p's step starts a tool invocation
Invoked(p) ==
  /\ proc[p].pc = "idle"
  /\ \/ proc'[p].via = "tool"
     \/ delivered'.via = "tool" /\ delivered'.attempts = 0

(* C20: registerTools stores no client; the first invocation that can     *)
(* construct one stores it, and it is never replaced: its credential and  *)
(* what it was constructed from stay, its timestamp never goes back.      *)
(* Every tool invocation uses it, so the requests of all tools are spaced *)
(* RATE_LIMIT_DELAY ms apart. An invocation whose construction fails      *)
(* stores nothing, and an invocation that finds no client constructs one  *)
(* (and keeps it exactly when SLACK_BOT_TOKEN is set then).               *)
C20_OneSharedClient ==
  /\ [](/\ ~constructed["tools"].done => clients["tools"] = NoClient
        /\ \A p \in Procs : proc[p].via = "tool" => proc[p].inst = "tools"
        /\ \A i \in Instances \ {"tools"} :
             clients[i] = NoClient /\ dispatched[i] = <<>>
        /\ Len(dispatched["tools"]) = 2 => Gap("tools") >= RATE_LIMIT_DELAY
        /\ (/\ delivered.pc = "done"
            /\ delivered.via = "tool"
            /\ delivered.attempts = 0) =>
             (delivered.settled.threw /\ clients["tools"] = NoClient))
  /\ [][clients["tools"].t = "client" =>
          /\ clients'["tools"].t = "client"
          /\ clients'["tools"].token = clients["tools"].token
          /\ clients'["tools"].lastRequestTime
               >= clients["tools"].lastRequestTime
          /\ constructed'["tools"] = constructed["tools"]]_vars
  /\ [][\A p \in Procs :
          (Invoked(p) /\ clients["tools"].t = "null") =>
            /\ clients'["tools"].t = "client" <=> Truthy(envToken)
            /\ constructed'["tools"].failed
                 <=> (constructed["tools"].failed \/ ~Truthy(envToken))]_vars

\* an invocation failed to construct the client; after SLACK_BOT_TOKEN was
\* set a later one constructed it, and two requests have gone through it
C20_Witness ==
  /\ clients["tools"].t = "client"
  /\ constructed["tools"].failed
  /\ constructed["tools"].env = Str("xoxb-env")
  /\ Len(dispatched["tools"]) = 2

(* C21: while the clock does not go back, no step lowers the timestamp of *)
(* a client; and the step in which a call ends, in failure as in success, *)
(* leaves every client as it is, so that a failed request counts for the  *)
(* spacing of the next.                                                    *)
C21_StampNeverDecreases ==
  /\ [][now' >= now]_vars
  /\ [][\A i \in Instances :
          clients[i].t = "client" =>
            /\ clients'[i].t = "client"
            /\ clients'[i].lastRequestTime >= clients[i].lastRequestTime]_vars
  /\ [][\A p \in Procs :
          (proc[p].pc = "fetch" /\ delivered'.pc = "done") =>
            clients' = clients]_vars

\* a call has failed on the remote's answer and its client still holds the
\* start time of the failed request
C21_Witness ==
  /\ delivered.pc = "done"
  /\ delivered.settled.threw
  /\ delivered.attempts >= 1
  /\ clients[delivered.inst].lastRequestTime = LastDispatch(delivered.inst)
  /\ clients[delivered.inst].lastRequestTime >= StartTime

\* p's step enters request(): a call starts, or a Retry-After sleep ends
Entered(p) ==
  /\ proc[p].pc \in {"idle", "retryWait"}
  /\ proc'[p].pc \in {"rateLimit", "fetch"}

(* C22: with calls made one at a time, a call that enters request() with  *)
(* RATE_LIMIT_DELAY ms or more elapsed since the client's stamp (0 for a  *)
(* fresh client) sends at once, and otherwise sleeps; and a call asleep   *)
(* in rateLimit() has set its timer for exactly RATE_LIMIT_DELAY minus    *)
(* the time that had elapsed, which is between 1 and RATE_LIMIT_DELAY ms. *)
C22_WaitIsRemainder ==
  /\ [](\A p \in Procs :
          proc[p].pc = "rateLimit" =>
            LET elapsed == proc[p].since - clients[proc[p].inst].lastRequestTime
                wait == proc[p].wakeAt - proc[p].since
            IN /\ elapsed \in 0..(RATE_LIMIT_DELAY - 1)
               /\ wait = RATE_LIMIT_DELAY - elapsed
               /\ wait \in 1..RATE_LIMIT_DELAY)
  /\ [][\A p \in Procs :
          Entered(p) =>
            (proc'[p].pc = "fetch"
               <=> now - StampFound(proc'[p].inst) >= RATE_LIMIT_DELAY)]_vars
  /\ [][\A p \in Procs :
          (Entered(p) /\ clients[proc'[p].inst].t = "null") =>
            proc'[p].pc = "fetch"]_vars

\* a call is asleep for part of the interval: some of it had elapsed when
\* the call was made
C22_Witness ==
  /\ proc[1].pc = "rateLimit"
  /\ proc[1].since > clients["tools"].lastRequestTime
  /\ proc[1].wakeAt - proc[1].since \in 1..(RATE_LIMIT_DELAY - 1)
  /\ proc[1].wakeAt = clients["tools"].lastRequestTime + RATE_LIMIT_DELAY

====
